---- MODULE Spec2Model ----
(***************************************************************************)
(* A model of m_customtags (InspIRCd 3 contrib module): the per-user       *)
(* custom tag store with its network codec (CustomTagsExtItem), the tag    *)
(* provider that resolves the subject of an outgoing message and attaches  *)
(* the subject's tags (CustomTags), and the module's WHO and configuration *)
(* handlers (ModuleCustomTags).                                            *)
(*                                                                         *)
(* A std::string is a sequence of one-character strings, so that the       *)
(* tokenizer, the encoder and the case-insensitive comparison work on      *)
(* characters as the code does.  Positions in a string are 0-based as in   *)
(* C++; s[i + 1] is the character at C++ position i.                        *)
(***************************************************************************)
EXTENDS Integers, Sequences, FiniteSets, TLC

VARIABLES
    ext,          \* user -> that user's CustomTagMap, or NoStore (SimpleExtItem storage)
    specialmsgs,  \* CustomTags::specialmsgs, a flat_map command -> nick index
    vendor,       \* CustomTags::vendor
    whox_index,   \* CustomTags::whox_index
    call          \* the handler that ran last, with its arguments and what it produced

vars == <<ext, specialmsgs, vendor, whox_index, call>>

----------------------------------------------------------------------------
(* Bounds of the model.                                                    *)

\* pairs in a replication payload, and pairs inserted to build a tag map
MaxPairs == 2
\* parameters of an outgoing message
MaxParams == 2
\* <specialmsg> tags in a configuration
MaxConfTags == 2
\* position of the nick field in a WHOX reply, as Who::Request reports it
MaxWhoxField == 0

----------------------------------------------------------------------------
(* Strings.                                                                *)

SP == " "

s_empty == <<>>
s_clan == <<"c", "l", "a", "n">>
s_Clan == <<"C", "l", "a", "n">>
s_level == <<"l", "e", "v", "e", "l">>
s_5 == <<"5">>
s_red == <<"r", "e", "d">>
s_acme == <<"a", "c", "m", "e">>
s_irc == <<"i", "r", "c">>
s_Alice == <<"A", "l", "i", "c", "e">>
s_Bob == <<"B", "o", "b">>
s_extra == <<"e", "x", "t", "r", "a">>
s_321 == <<"3", "2", "1">>
s_354 == <<"3", "5", "4">>

\* national_case_insensitive_map restricted to the characters of the model:
\* an upper-case letter maps to its lower-case letter, the rest to themselves.
CaseMap(c) ==
    CASE c = "A" -> "a"
      [] c = "B" -> "b"
      [] c = "C" -> "c"
      [] c = "L" -> "l"
      [] OTHER -> c

\* The character code of a (case-mapped) character.
CharCode(c) ==
    CASE c = " " -> 32
      [] c = "/" -> 47
      [] c = "1" -> 49
      [] c = "2" -> 50
      [] c = "3" -> 51
      [] c = "4" -> 52
      [] c = "5" -> 53
      [] c = "a" -> 97
      [] c = "b" -> 98
      [] c = "c" -> 99
      [] c = "d" -> 100
      [] c = "e" -> 101
      [] c = "i" -> 105
      [] c = "l" -> 108
      [] c = "m" -> 109
      [] c = "n" -> 110
      [] c = "o" -> 111
      [] c = "r" -> 114
      [] c = "t" -> 116
      [] c = "v" -> 118
      [] c = "x" -> 120

Min(a, b) == IF a < b THEN a ELSE b

\* std::less<std::string>, the comparison a map gets when it is declared
\* without irc::insensitive_swo: a < b by the characters' own codes.
RawCode(c) ==
    CASE c = "A" -> 65
      [] c = "B" -> 66
      [] c = "C" -> 67
      [] c = "L" -> 76
      [] OTHER -> CharCode(c)

InsensitiveLess_CaseSensitive(a, b) ==
    LET maxsize == Min(Len(a), Len(b))
        Differ == {i \in 1..maxsize : a[i] # b[i]}
    IN  IF Differ = {}
        THEN Len(a) < Len(b)
        ELSE LET i == CHOOSE k \in Differ : \A j \in Differ : k <= j
             IN  RawCode(a[i]) < RawCode(b[i])

\* irc::insensitive_swo: a < b, comparing case-mapped characters, the shorter
\* string first when one is a prefix of the other.
InsensitiveLess(a, b) ==
    LET maxsize == Min(Len(a), Len(b))
        Differ == {i \in 1..maxsize : CaseMap(a[i]) # CaseMap(b[i])}
    IN  IF Differ = {}
        THEN Len(a) < Len(b)
        ELSE LET i == CHOOSE k \in Differ : \A j \in Differ : k <= j
             IN  CharCode(CaseMap(a[i])) < CharCode(CaseMap(b[i]))

\* irc::equals: equal under the case map.
IrcEquals(a, b) ==
    /\ Len(a) = Len(b)
    /\ \A i \in 1..Len(a) : CaseMap(a[i]) = CaseMap(b[i])

----------------------------------------------------------------------------
(* insp::flat_map<std::string, T, irc::insensitive_swo>: a vector of       *)
(* <<key, value>> pairs kept sorted by key.                                *)

\* std::lower_bound: the first (1-based) place whose key is not less than
\* key; Len(map) + 1 for end().
LowerBound(map, key) ==
    LET NotLess == {i \in 1..Len(map) : ~InsensitiveLess(map[i][1], key)}
    IN  IF NotLess = {} THEN Len(map) + 1
        ELSE CHOOSE k \in NotLess : \A j \in NotLess : k <= j

\* flat_map::find: the place of the entry equivalent to key, 0 for end().
MapFind(map, key) ==
    LET it == LowerBound(map, key)
    IN  IF it <= Len(map) /\ ~InsensitiveLess(key, map[it][1]) THEN it ELSE 0

InsertAt(seq, i, x) == SubSeq(seq, 1, i - 1) \o <<x>> \o SubSeq(seq, i, Len(seq))

\* MapInsert as a vector that is not kept sorted would do it: a new key goes
\* to the end.
MapInsert_Unsorted(map, key, val) ==
    IF \E i \in 1..Len(map) : IrcEquals(map[i][1], key)
    THEN map
    ELSE Append(map, <<key, val>>)

\* flat_map::insert: an equivalent key that is already there keeps its entry.
MapInsert(map, key, val) ==
    LET it == LowerBound(map, key)
    IN  IF it <= Len(map) /\ ~InsensitiveLess(key, map[it][1])
        THEN map
        ELSE InsertAt(map, it, <<key, val>>)

\* map[key] = val: operator[] inserts key when no equivalent key is there
\* and then assigns the value of the entry.
MapAssign(map, key, val) ==
    LET it == MapFind(map, key)
    IN  IF it = 0
        THEN MapInsert(map, key, val)
        ELSE [map EXCEPT ![it] = <<map[it][1], val>>]

----------------------------------------------------------------------------
(* irc::spacesepstream, the tokenizer FromNetwork reads the payload with:  *)
(* an irc::sepstream on ' ' that does not allow empty tokens.  The stream  *)
(* is the string and a position pos, 0 after construction.                 *)
(* The class is InspIRCd's (hashcomp.cpp of the 3.x core), which this     *)
(* module is built against; its functions are modelled as they are there.  *)

\* std::string::npos
Npos == -1

\* sepstream::StreamEnd: pos > tokens.length().
StreamEnd(tokens, pos) == pos > Len(tokens)

\* tokens.find_first_not_of(sep, pos)
FindFirstNotOf(tokens, pos) ==
    LET Hits == {i \in pos..(Len(tokens) - 1) : tokens[i + 1] # SP}
    IN  IF Hits = {} THEN Npos ELSE CHOOSE k \in Hits : \A j \in Hits : k <= j

\* tokens.find(sep, pos)
FindSep(tokens, pos) ==
    LET Hits == {i \in pos..(Len(tokens) - 1) : tokens[i + 1] = SP}
    IN  IF Hits = {} THEN Npos ELSE CHOOSE k \in Hits : \A j \in Hits : k <= j

\* sepstream::GetToken: whether a token was read, the token, and the
\* stream's position afterwards.  Separators before the token are skipped;
\* when only separators (or nothing) are left the call fails and the
\* stream is at its end.
GetToken(tokens, pos) ==
    IF StreamEnd(tokens, pos)
    THEN [ok |-> FALSE, token |-> <<>>, pos |-> pos]
    ELSE LET start == FindFirstNotOf(tokens, pos)
         IN  IF start = Npos
             THEN [ok |-> FALSE, token |-> <<>>, pos |-> Len(tokens) + 1]
             ELSE LET f == FindSep(tokens, start)
                      p == IF f = Npos THEN Len(tokens) ELSE f
                  IN  [ok |-> TRUE,
                       token |-> SubSeq(tokens, start + 1, p),
                       pos |-> p + 1]

----------------------------------------------------------------------------
(* CustomTagsExtItem: the codec.                                           *)

\* The extension of a user: no CustomTagMap (get() returns NULL), or one.
NoStore == <<>>
StoreOf(list) == <<list>>
HasStore(e) == e # NoStore
ListOf(e) == e[1]

\* The while loop of FromNetwork from stream position pos with the list
\* built so far: malformed is TRUE when a name or its value could not be
\* read (the list is then deleted), and list is the list at the loop's end.
RECURSIVE ReadTagList(_, _, _)
ReadTagList(value, pos, list) ==
    IF StreamEnd(value, pos)
    THEN [malformed |-> FALSE, list |-> list]
    ELSE LET tagname == GetToken(value, pos)
         IN  IF ~tagname.ok
             THEN [malformed |-> TRUE, list |-> list]
             ELSE LET tagvalue == GetToken(value, tagname.pos)
                  IN  IF ~tagvalue.ok
                      THEN [malformed |-> TRUE, list |-> list]
                      ELSE ReadTagList(value, tagvalue.pos,
                                       MapInsert(list, tagname.token, tagvalue.token))

\* DecodedExt without the early return: a malformed payload installs the
\* pairs read before the name that has no value.
DecodedExt_KeepsPartial(old, value) ==
    LET r == ReadTagList(value, 0, <<>>)
    IN  IF r.list # <<>> THEN StoreOf(r.list)
        ELSE IF r.malformed THEN old
        ELSE NoStore

\* FromNetwork inserting the received pairs into the map the user already
\* has instead of into a new one.
DecodedExt_MergesOld(old, value) ==
    LET r == ReadTagList(value, 0, IF HasStore(old) THEN ListOf(old) ELSE <<>>)
    IN  IF r.malformed THEN old
        ELSE IF r.list # <<>> THEN StoreOf(r.list)
        ELSE NoStore

\* What FromNetwork leaves as the user's extension, given the extension
\* before the call: untouched when the payload is malformed, set() to the
\* new list when it is not empty, unset() otherwise.
DecodedExt(old, value) ==
    LET r == ReadTagList(value, 0, <<>>)
    IN  IF r.malformed THEN old
        ELSE IF r.list # <<>> THEN StoreOf(r.list)
        ELSE NoStore

\* CustomTagsExtItem::ToNetwork: "name value" for each entry in the map's
\* order, a space between entries.
RECURSIVE ToNetworkFrom(_, _)
ToNetworkFrom(list, i) ==
    IF i > Len(list) THEN <<>>
    ELSE (IF i # 1 THEN <<SP>> ELSE <<>>)
         \o list[i][1] \o <<SP>> \o list[i][2]
         \o ToNetworkFrom(list, i + 1)

RECURSIVE ToNetwork_NoSeparator(_)
\* ToNetwork without the space between one entry and the next.
ToNetwork_NoSeparator(list) ==
    IF list = <<>> THEN <<>>
    ELSE list[1][1] \o <<SP>> \o list[1][2] \o ToNetwork_NoSeparator(Tail(list))

ToNetwork(list) == ToNetworkFrom(list, 1)

----------------------------------------------------------------------------
(* The users, the messages, the connections and the configurations the     *)
(* handlers are called with.                                               *)

\* A user is known by its nick.  NULL is the null User*.
NULL == <<>>

\* The users on the network (the client list FindNickOnly searches).
Users == {s_Alice, s_Bob}

\* The server's own fake user, the source of server-generated messages.
ServerUser == s_irc

\* IS_SERVER(user)
IsServer(user) == user = ServerUser

\* ServerInstance->FindNickOnly(nick): the user of that nick, compared as
\* nicks are (under the case map), or NULL.
FindNickOnly(nick) ==
    IF \E u \in Users : IrcEquals(u, nick)
    THEN CHOOSE u \in Users : IrcEquals(u, nick)
    ELSE NULL

\* The tag provider a tag belongs to: this module's CustomTags, or another.
Self == "customtags"
Providers == {Self, "other"}

\* ServerInstance->Config->ServerName
ServerName == s_irc

RECURSIVE SeqsUpTo(_, _)
\* The sequences of at most n elements of S.
SeqsUpTo(S, n) ==
    IF n = 0 THEN {<<>>}
    ELSE LET Shorter == SeqsUpTo(S, n - 1)
         IN  Shorter \cup {Append(q, x) : q \in {r \in Shorter : Len(r) = n - 1}, x \in S}

\* ClientProtocol::Message as OnPopulateTags reads it: GetSourceUser(),
\* GetCommand(), GetParams().  The first parameter of a message is the nick
\* it is sent to; the parameters after it are a nick on the network or a
\* word that is no nick.
Recipient == s_Alice
ParamTokens == {s_Bob, s_extra}
ParamLists ==
    {<<>>} \cup {<<Recipient>> \o rest : rest \in SeqsUpTo(ParamTokens, MaxParams - 1)}
Commands == {s_321, s_354}
Messages ==
    [source : {NULL, ServerUser, s_Bob},
     command : Commands,
     params : ParamLists]

\* A LocalUser as ShouldSendTag reads it: whether it has enabled the
\* message-tags capability (what Cap::Reference::get answers for it).
Connections == [nick : Users, msgtags : BOOLEAN]

\* Who::Request as OnWhoLine reads it: whether GetFieldIndex('n', out)
\* finds the nick field, and the index it stores in out when it does.
WhoRequests ==
    {[found |-> FALSE, index |-> 0]}
        \cup {[found |-> TRUE, index |-> i] : i \in 0..MaxWhoxField}

\* A <specialmsg> tag: its command ("" when the tag has none) and its index
\* as written in the configuration.
ConfTags ==
    {[command |-> s_321, index |-> 0],
     [command |-> s_321, index |-> 1],
     [command |-> s_354, index |-> 25],
     [command |-> s_empty, index |-> 0]}

\* A configuration: its <specialmsg> tags in order and <customtags:vendor>
\* ("" when it is not set).
Configs ==
    [specialmsg : SeqsUpTo(ConfTags, MaxConfTags),
     vendor : {s_acme, s_empty}]

\* The (name, value) pairs replication payloads are made of.
TagPairs == {<<s_clan, s_red>>, <<s_Clan, s_5>>, <<s_level, s_5>>}

RECURSIVE JoinPairs(_)
\* "name value name value ..." for a sequence of pairs.
JoinPairs(pairs) ==
    IF pairs = <<>> THEN <<>>
    ELSE pairs[1][1] \o <<SP>> \o pairs[1][2]
         \o (IF Len(pairs) > 1 THEN <<SP>> ELSE <<>>)
         \o JoinPairs(Tail(pairs))

\* The payloads METADATA delivers: up to MaxPairs pairs, and the same with
\* a name that has no value after them.
Payloads ==
    LET Good == {JoinPairs(ps) : ps \in SeqsUpTo(TagPairs, MaxPairs)}
    IN  Good \cup {IF g = <<>> THEN s_level ELSE g \o <<SP>> \o s_level : g \in Good}

----------------------------------------------------------------------------
(* The state after construction: no user has tags, no special messages,    *)
(* an empty vendor, whox_index(-1).                                        *)

NoNickField == -1

Init ==
    /\ ext = [u \in Users |-> NoStore]
    /\ specialmsgs = <<>>
    /\ vendor = s_empty
    /\ whox_index = NoNickField
    /\ call = [op |-> "none"]

----------------------------------------------------------------------------
(* CustomTagsExtItem::FromNetwork                                          *)

FromNetwork(user, value) ==
    /\ ext' = [ext EXCEPT ![user] = DecodedExt(ext[user], value)]
    /\ call' = [op |-> "FromNetwork", user |-> user, value |-> value]
    /\ UNCHANGED <<specialmsgs, vendor, whox_index>>

\* CustomTagsExtItem::ToNetwork, called with the user's map as item.
ToNetworkCall(user) ==
    /\ HasStore(ext[user])
    /\ call' = [op |-> "ToNetwork", user |-> user, item |-> ListOf(ext[user]),
                result |-> ToNetwork(ListOf(ext[user]))]
    /\ UNCHANGED <<ext, specialmsgs, vendor, whox_index>>

----------------------------------------------------------------------------
(* CustomTags                                                              *)

\* UserFromMsg reading the nick at the first parameter whatever index the
\* special message configures.
UserFromMsg_FirstParam(msg) ==
    LET iter == MapFind(specialmsgs, msg.command)
    IN  IF iter = 0 THEN NULL
        ELSE IF IrcEquals(msg.command, s_354) /\ whox_index = NoNickField THEN NULL
        ELSE IF Len(msg.params) <= 0 THEN NULL
        ELSE FindNickOnly(msg.params[1])

\* UserFromMsg taking the WHOX field index as the parameter index, without
\* the + 1 for the recipient's nick before the fields.
UserFromMsg_WhoxNoOffset(msg) ==
    LET iter == MapFind(specialmsgs, msg.command)
    IN  IF iter = 0 THEN NULL
        ELSE IF IrcEquals(msg.command, s_354) /\ whox_index = NoNickField THEN NULL
        ELSE LET nick_index == IF IrcEquals(msg.command, s_354)
                               THEN whox_index
                               ELSE specialmsgs[iter][2]
             IN  IF Len(msg.params) <= nick_index THEN NULL
                 ELSE FindNickOnly(msg.params[nick_index + 1])

\* UserFromMsg with a message that has too few parameters resolved through
\* its last parameter instead of giving up.
UserFromMsg_ShortUsesLast(msg) ==
    LET iter == MapFind(specialmsgs, msg.command)
    IN  IF iter = 0 THEN NULL
        ELSE IF IrcEquals(msg.command, s_354) /\ whox_index = NoNickField THEN NULL
        ELSE LET nick_index == IF IrcEquals(msg.command, s_354)
                               THEN whox_index + 1
                               ELSE specialmsgs[iter][2]
             IN  IF msg.params = <<>> THEN NULL
                 ELSE IF Len(msg.params) <= nick_index
                 THEN FindNickOnly(msg.params[Len(msg.params)])
                 ELSE FindNickOnly(msg.params[nick_index + 1])

\* UserFromMsg without the assignment of whox_index + 1: a 354 is resolved
\* through the index its <specialmsg> tag configures.
UserFromMsg_WhoxConfigured(msg) ==
    LET iter == MapFind(specialmsgs, msg.command)
    IN  IF iter = 0 THEN NULL
        ELSE IF IrcEquals(msg.command, s_354) /\ whox_index = NoNickField THEN NULL
        ELSE LET nick_index == specialmsgs[iter][2]
             IN  IF Len(msg.params) <= nick_index THEN NULL
                 ELSE FindNickOnly(msg.params[nick_index + 1])

\* CustomTags::UserFromMsg
UserFromMsg(msg) ==
    LET iter == MapFind(specialmsgs, msg.command)
    IN  IF iter = 0 THEN NULL
        ELSE IF IrcEquals(msg.command, s_354) /\ whox_index = NoNickField THEN NULL
        ELSE LET nick_index == IF IrcEquals(msg.command, s_354)
                               THEN whox_index + 1
                               ELSE specialmsgs[iter][2]
             IN  IF Len(msg.params) <= nick_index THEN NULL
                 ELSE FindNickOnly(msg.params[nick_index + 1])

\* SubjectOf consulting the special messages first and the source only
\* when they name nobody.
SubjectOf_TableFirst(msg) ==
    IF UserFromMsg(msg) # NULL THEN UserFromMsg(msg)
    ELSE IF msg.source = NULL \/ IsServer(msg.source) THEN NULL
    ELSE msg.source

\* The user OnPopulateTags takes the tags of, or NULL.
SubjectOf(msg) ==
    IF msg.source = NULL \/ IsServer(msg.source)
    THEN UserFromMsg(msg)
    ELSE msg.source

\* TagsFor adding each tag under its bare name, without the vendor prefix.
TagsFor_NoVendor(user) ==
    IF user = NULL THEN <<>>
    ELSE IF ~HasStore(ext[user]) THEN <<>>
    ELSE LET tags == ListOf(ext[user])
         IN  [i \in 1..Len(tags) |->
                [name |-> tags[i][1], provider |-> Self, value |-> tags[i][2]]]

\* The AddTag calls of OnPopulateTags, in order: one per entry of the
\* user's map.
TagsFor(user) ==
    IF user = NULL THEN <<>>
    ELSE IF ~HasStore(ext[user]) THEN <<>>
    ELSE LET tags == ListOf(ext[user])
         IN  [i \in 1..Len(tags) |->
                [name |-> vendor \o <<"/">> \o tags[i][1],
                 provider |-> Self,
                 value |-> tags[i][2]]]

\* CustomTags::OnPopulateTags
OnPopulateTags(msg) ==
    /\ call' = [op |-> "OnPopulateTags", msg |-> msg,
                user |-> SubjectOf(msg), tags |-> TagsFor(SubjectOf(msg))]
    /\ UNCHANGED <<ext, specialmsgs, vendor, whox_index>>

\* ShouldSendTag sending to every connection.
ShouldSendTagResult_Always(user, tagdata) == TRUE

\* What ShouldSendTag returns: ctctagcap.get(user).
ShouldSendTagResult(user, tagdata) == user.msgtags

\* CustomTags::ShouldSendTag
ShouldSendTag(user, tagdata) ==
    /\ call' = [op |-> "ShouldSendTag", user |-> user, tagdata |-> tagdata,
                result |-> ShouldSendTagResult(user, tagdata)]
    /\ UNCHANGED <<ext, specialmsgs, vendor, whox_index>>

----------------------------------------------------------------------------
(* ModuleCustomTags                                                        *)

\* OnWhoLine that leaves whox_index alone when the request has no nick
\* field.
WhoxIndexOf_KeepsLast(request) ==
    IF request.found THEN request.index ELSE whox_index

\* What OnWhoLine stores in whox_index.
WhoxIndexOf(request) == IF request.found THEN request.index ELSE NoNickField

\* ModuleCustomTags::OnWhoLine for a WHO request of the connection source;
\* the handler does not read source.
OnWhoLine(request, source) ==
    /\ whox_index' = WhoxIndexOf(request)
    /\ call' = [op |-> "OnWhoLine", request |-> request, source |-> source]
    /\ UNCHANGED <<ext, specialmsgs, vendor>>

\* ConfigTag::getUInt("index", 0, 0, 20): the default when the value is
\* out of range.
IndexMin == 0
IndexMax == 20
GetUInt(value) == IF value < IndexMin \/ value > IndexMax THEN 0 ELSE value

\* The for loop of ReadConfig from the i-th <specialmsg> tag with the local
\* map built so far: thrown is TRUE when a tag has an empty command.
RECURSIVE ReadSpecialMsgs(_, _, _)
ReadSpecialMsgs(conftags, i, map) ==
    IF i > Len(conftags)
    THEN [thrown |-> FALSE, map |-> map]
    ELSE IF conftags[i].command = <<>>
    THEN [thrown |-> TRUE, map |-> map]
    ELSE ReadSpecialMsgs(conftags, i + 1,
                         MapAssign(map, conftags[i].command, GetUInt(conftags[i].index)))

\* ReadConfig filling ctags.specialmsgs in place: the entries read before
\* the throw stay installed.
ConfigResult_InPlace(old, conf) ==
    LET r == ReadSpecialMsgs(conf.specialmsg, 1, <<>>)
    IN  IF r.thrown THEN <<r.map, old[2]>>
        ELSE <<r.map, IF Len(conf.vendor) < 1 THEN ServerName ELSE conf.vendor>>

\* ReadConfig adding the tags it reads to the installed map instead of
\* building a new one: the special messages of the old configuration stay.
ConfigResult_Merges(old, conf) ==
    LET r == ReadSpecialMsgs(conf.specialmsg, 1, old[1])
    IN  IF r.thrown THEN old
        ELSE <<r.map, IF Len(conf.vendor) < 1 THEN ServerName ELSE conf.vendor>>

\* What ReadConfig leaves in <<specialmsgs, vendor>>, given what they were:
\* both as they were when the loop threw, else the new map swapped in and
\* the configured vendor (the server name when it is shorter than one
\* character).
ConfigResult(old, conf) ==
    LET r == ReadSpecialMsgs(conf.specialmsg, 1, <<>>)
    IN  IF r.thrown THEN old
        ELSE <<r.map, IF Len(conf.vendor) < 1 THEN ServerName ELSE conf.vendor>>

ConfigAfter(conf) == ConfigResult(<<specialmsgs, vendor>>, conf)

\* ModuleCustomTags::ReadConfig
ReadConfig(conf) ==
    /\ specialmsgs' = ConfigAfter(conf)[1]
    /\ vendor' = ConfigAfter(conf)[2]
    /\ call' = [op |-> "ReadConfig", conf |-> conf]
    /\ UNCHANGED <<ext, whox_index>>

----------------------------------------------------------------------------
(* The module as a whole: any handler may run next.                        *)

Decode == \E u \in Users, p \in Payloads : FromNetwork(u, p)
Encode == \E u \in Users : ToNetworkCall(u)
Populate == \E m \in Messages : OnPopulateTags(m)
Send == \E c \in Connections, o \in Providers : ShouldSendTag(c, [provider |-> o])
Who == \E r \in WhoRequests : \E source \in Users : OnWhoLine(r, source)
Rehash == \E c \in Configs : ReadConfig(c)

Next == Decode \/ Encode \/ Populate \/ Send \/ Who \/ Rehash

Spec == Init /\ [][Next]_vars

----------------------------------------------------------------------------
(* The tag store alone: payloads arrive for the users.                     *)

SpecStore == Init /\ [][Decode]_vars

----------------------------------------------------------------------------
(* Replication alone: payloads arrive for the users and the users' maps    *)
(* are encoded for other servers.                                          *)

NextReplicate == Decode \/ Encode

SpecReplicate == Init /\ [][NextReplicate]_vars

----------------------------------------------------------------------------
(* Subject resolution alone: rehashes, WHO requests and outgoing messages, *)
(* no user having tags.                                                    *)

NextResolve == Populate \/ Who \/ Rehash

SpecResolve == Init /\ [][NextResolve]_vars

----------------------------------------------------------------------------
(* Tag attachment: OnPopulateTags and ShouldSendTag write nothing of the   *)
(* module's state, so they are checked from every state the other handlers *)
(* can leave: each user's extension one that FromNetwork leaves, the       *)
(* configuration one that ReadConfig leaves, whox_index one that OnWhoLine *)
(* leaves (or each as constructed).                                        *)

ReachableExts == {NoStore} \cup {DecodedExt(NoStore, p) : p \in Payloads}

ConstructedConfig == <<(<<>>), s_empty>>
ReachableConfigs ==
    {ConstructedConfig} \cup {ConfigResult(ConstructedConfig, c) : c \in Configs}

ReachableWhox == {NoNickField} \cup {WhoxIndexOf(r) : r \in WhoRequests}

InitTags ==
    /\ ext \in [Users -> ReachableExts]
    /\ \E c \in ReachableConfigs : specialmsgs = c[1] /\ vendor = c[2]
    /\ whox_index \in ReachableWhox
    /\ call = [op |-> "none"]

NextTags == Populate \/ Send

SpecTags == InitTags /\ [][NextTags]_vars

\* The extensions InitTags draws from are the ones decoding reaches
\* (an invariant of SpecStore).
ExtsAreReachable == \A u \in Users : ext[u] \in ReachableExts

\* The configurations and the whox_index InitTags draws from are the ones
\* rehashes and WHO requests reach (an invariant of SpecResolve).
ConfigIsReachable ==
    /\ <<specialmsgs, vendor>> \in ReachableConfigs
    /\ whox_index \in ReachableWhox

----------------------------------------------------------------------------
(* The codec as a function: a user holds any tag map (names and values of  *)
(* CodecNames and CodecValues, the empty string among them), the map is    *)
(* encoded for the network and the payload is decoded for a user.          *)

CodecNames == {s_empty, s_clan, s_Clan, s_level}
CodecValues == {s_empty, s_5, s_red}

RECURSIVE BuildMap(_)
\* The flat_map after inserting the pairs in order.
BuildMap(pairs) ==
    IF pairs = <<>> THEN <<>>
    ELSE LET init == BuildMap(SubSeq(pairs, 1, Len(pairs) - 1))
             last == pairs[Len(pairs)]
         IN  MapInsert(init, last[1], last[2])

TagMaps ==
    {BuildMap(ps) : ps \in SeqsUpTo(CodecNames \X CodecValues, MaxPairs)} \ {<<>>}

InitCodec ==
    /\ \E m \in TagMaps : ext = [u \in Users |-> IF u = s_Alice THEN StoreOf(m) ELSE NoStore]
    /\ specialmsgs = <<>>
    /\ vendor = s_empty
    /\ whox_index = NoNickField
    /\ call = [op |-> "none"]

\* The payload ToNetwork produced is handed to FromNetwork for some user.
Deliver ==
    /\ call.op = "ToNetwork"
    /\ \E u \in Users : FromNetwork(u, call.result)

NextCodec == Encode \/ Deliver

SpecCodec == InitCodec /\ [][NextCodec]_vars

----------------------------------------------------------------------------
(* Properties.                                                             *)

\* Every name and every value of the map is non-empty.
NonEmptyTokens(list) ==
    \A i \in 1..Len(list) : list[i][1] # <<>> /\ list[i][2] # <<>>

\* Every name of the map is non-empty.
NonEmptyNames(list) == \A i \in 1..Len(list) : list[i][1] # <<>>

\* The step hands the payload ToNetwork has just produced to FromNetwork.
RoundTripStep ==
    /\ call.op = "ToNetwork"
    /\ call'.op = "FromNetwork"
    /\ call'.value = call.result

(* C1, as first stated: for every tag map with at least one entry (the    *)
(* values may be empty), decoding the encoding of the map leaves the user  *)
(* with exactly the entries of the map, in the same order.                 *)
C1_RoundTripAnyValue ==
    [][(RoundTripStep /\ NonEmptyNames(call.item))
          => ext'[call'.user] = StoreOf(call.item)]_vars

(* C1, amended: for every tag map with at least one entry whose names and  *)
(* values are non-empty and hold no whitespace, decoding the encoding of   *)
(* the map leaves the user with exactly the entries of the map, in the     *)
(* same order.                                                             *)
C1_RoundTrip ==
    [][(RoundTripStep /\ NonEmptyTokens(call.item))
          => ext'[call'.user] = StoreOf(call.item)]_vars

\* A map of two entries was encoded and decoded for a user who had no tags.
C1_Witness ==
    /\ call.op = "FromNetwork"
    /\ call.user = s_Bob
    /\ call.value = JoinPairs(<<(<<s_clan, s_red>>), (<<s_level, s_5>>)>>)
    /\ ext[s_Alice] = StoreOf(<<(<<s_clan, s_red>>), (<<s_level, s_5>>)>>)
    /\ ext[s_Bob] = ext[s_Alice]

\* The number of space-separated tokens of a payload: the places where a
\* run of non-space characters starts.
TokenCount(value) ==
    Cardinality({i \in 1..Len(value) :
                    value[i] # SP /\ (i = 1 \/ value[i - 1] = SP)})

(* C2: decoding a payload with an odd number of tokens (a name without a   *)
(* value) changes no user's tag state, whatever pairs precede the name.    *)
C2_MalformedKeepsState ==
    [][(call'.op = "FromNetwork" /\ TokenCount(call'.value) % 2 = 1)
          => ext' = ext]_vars

\* A payload of a pair and a dangling name was decoded for a user who holds
\* a map that has no entry of that pair's name.
C2_Witness ==
    /\ call.op = "FromNetwork"
    /\ call.value = s_clan \o <<SP>> \o s_red \o <<SP>> \o s_level
    /\ ext[call.user] = StoreOf(<<(<<s_level, s_5>>)>>)

(* C3: no user ever holds a map with zero entries, and decoding a payload  *)
(* of zero pairs (the empty string) leaves the user without a map.         *)
C3_NoEmptyStore ==
    /\ [](\A u \in Users : HasStore(ext[u]) => ListOf(ext[u]) # <<>>)
    /\ [][(call'.op = "FromNetwork" /\ TokenCount(call'.value) = 0)
             => ext'[call'.user] = NoStore]_vars

(* C4, as first stated: ShouldSendTag returns true exactly when the tag's  *)
(* provider is this module and the connection has enabled message-tags.    *)
C4_OwnerAndCapability ==
    call.op = "ShouldSendTag"
        => (call.result <=> (call.tagdata.provider = Self /\ call.user.msgtags))

(* C4, amended: ShouldSendTag returns true exactly when the connection has *)
(* enabled message-tags, whichever provider the tag belongs to.            *)
C4_CapabilityOnly ==
    call.op = "ShouldSendTag" => (call.result <=> call.user.msgtags)

\* ShouldSendTag was asked about another provider's tag for a connection
\* with the capability, and about a tag of its own for one without.
C4_Witness ==
    /\ call.op = "ShouldSendTag"
    /\ call.tagdata.provider # Self
    /\ call.user.msgtags
    /\ call.result

\* tags are the AddTag calls for the entries of the extension e, in the
\* map's order: vendor/name, this provider, the value.
TagsMatch(tags, e) ==
    IF ~HasStore(e) THEN tags = <<>>
    ELSE /\ Len(tags) = Len(ListOf(e))
         /\ \A i \in 1..Len(tags) :
               /\ tags[i].name = vendor \o <<"/">> \o ListOf(e)[i][1]
               /\ tags[i].value = ListOf(e)[i][2]
               /\ tags[i].provider = Self

(* C5: a message whose source is a user that is no server gets that user   *)
(* as its subject and that user's tags, whatever the special messages, the *)
(* parameters and whox_index are.                                          *)
C5_SourceUserWins ==
    (call.op = "OnPopulateTags" /\ call.msg.source \in Users)
        => /\ call.user = call.msg.source
           /\ TagsMatch(call.tags, ext[call.msg.source])

\* Bob sent a message whose command is a special message pointing at a
\* parameter that names Alice; both have tags, and not the same ones.
C5_Witness ==
    /\ call.op = "OnPopulateTags"
    /\ call.msg.source = s_Bob
    /\ LET iter == MapFind(specialmsgs, call.msg.command)
       IN  /\ iter # 0
           /\ specialmsgs[iter][2] = 0
    /\ call.msg.params = <<s_Alice, s_extra>>
    /\ HasStore(ext[s_Bob])
    /\ HasStore(ext[s_Alice])
    /\ ext[s_Alice] # ext[s_Bob]
    /\ call.tags # <<>>

\* The message has no user as its source, or the server.
ServerSourced(msg) == msg.source = NULL \/ IsServer(msg.source)

\* user is the user on the network whose nick is nick, NULL when nobody has
\* that nick.
IsUserOfNick(user, nick) ==
    \/ user \in Users /\ IrcEquals(user, nick)
    \/ user = NULL /\ \A u \in Users : ~IrcEquals(u, nick)

(* C6: a server-sourced message whose command is a special message with    *)
(* position p, and is not 354, resolves to the user whose nick is          *)
(* params[p] when there are more than p parameters (NULL when nobody has   *)
(* that nick) and to NULL when there are p parameters or fewer.            *)
C6_SpecialMessage ==
    (/\ call.op = "OnPopulateTags"
     /\ ServerSourced(call.msg)
     /\ ~IrcEquals(call.msg.command, s_354)
     /\ MapFind(specialmsgs, call.msg.command) # 0)
        => LET p == specialmsgs[MapFind(specialmsgs, call.msg.command)][2]
           IN  IF Len(call.msg.params) > p
               THEN IsUserOfNick(call.user, call.msg.params[p + 1])
               ELSE call.user = NULL

\* 321 is a special message with position 1 and a server-sourced 321 with
\* the parameters Alice, Bob resolved to Bob.
C6_Witness ==
    /\ call.op = "OnPopulateTags"
    /\ ServerSourced(call.msg)
    /\ call.msg.command = s_321
    /\ MapFind(specialmsgs, s_321) # 0
    /\ specialmsgs[MapFind(specialmsgs, s_321)][2] = 1
    /\ call.msg.params = <<s_Alice, s_Bob>>
    /\ call.user = s_Bob

\* A server-sourced 354 was populated.
Whox354(c) ==
    /\ c.op = "OnPopulateTags"
    /\ ServerSourced(c.msg)
    /\ IrcEquals(c.msg.command, s_354)

(* C7, as first stated: while no OnWhoLine has run a server-sourced 354    *)
(* resolves to NULL; once OnWhoLine recorded the nick field k, a           *)
(* server-sourced 354 with at least k + 2 parameters resolves to the user  *)
(* of params[k + 1], and one with fewer resolves to NULL.                  *)
C7_DynamicField ==
    Whox354(call)
        => IF whox_index = NoNickField THEN call.user = NULL
           ELSE IF Len(call.msg.params) >= whox_index + 2
           THEN IsUserOfNick(call.user, call.msg.params[whox_index + 2])
           ELSE call.user = NULL

(* C7, amended: whox_index is that of the last OnWhoLine, and no nick      *)
(* field while none has run; a server-sourced 354 resolves to NULL while   *)
(* there is no nick field; with the nick field k recorded it resolves to   *)
(* the user of params[k + 1] when 354 is a special message and the message *)
(* has at least k + 2 parameters, and to NULL otherwise.                   *)
C7_DynamicFieldWhenSpecial ==
    /\ whox_index = NoNickField
    /\ [][whox_index' # whox_index => call'.op = "OnWhoLine"]_vars
    /\ [](call.op = "OnWhoLine" => whox_index = WhoxIndexOf(call.request))
    /\ [](Whox354(call)
            => IF whox_index = NoNickField THEN call.user = NULL
               ELSE IF /\ MapFind(specialmsgs, s_354) # 0
                       /\ Len(call.msg.params) >= whox_index + 2
               THEN IsUserOfNick(call.user, call.msg.params[whox_index + 2])
               ELSE call.user = NULL)

\* With the nick field 0 recorded and 354 a special message, a
\* server-sourced 354 with the parameters Alice, Bob resolved to Bob.
C7_Witness ==
    /\ Whox354(call)
    /\ whox_index = 0
    /\ MapFind(specialmsgs, s_354) # 0
    /\ call.msg.params = <<s_Alice, s_Bob>>
    /\ call.user = s_Bob

\* Bob holds the tags level = 5 and clan = red, the vendor is acme, 321 is
\* a special message with position 1, and a server-sourced 321 with the
\* parameters Alice, Bob was populated.
C8_Scenario ==
    /\ call.op = "OnPopulateTags"
    /\ ServerSourced(call.msg)
    /\ call.msg.command = s_321
    /\ call.msg.params = <<s_Alice, s_Bob>>
    /\ vendor = s_acme
    /\ MapFind(specialmsgs, s_321) # 0
    /\ specialmsgs[MapFind(specialmsgs, s_321)][2] = 1
    /\ HasStore(ext[s_Bob])
    /\ Len(ListOf(ext[s_Bob])) = 2
    /\ {ListOf(ext[s_Bob])[i] : i \in 1..2} = {<<s_level, s_5>>, <<s_clan, s_red>>}

\* ShouldSendTag answers true only for a connection with message-tags.
SentOnlyWithCapability ==
    call.op = "ShouldSendTag" => (call.result => call.user.msgtags)

(* C8, as first stated: in the scenario exactly two tags are attached,     *)
(* acme/level = 5 first and acme/clan = red second, and a tag is sent only *)
(* to connections with the capability.                                     *)
C8_LevelThenClan ==
    /\ C8_Scenario
         => call.tags =
              <<[name |-> s_acme \o <<"/">> \o s_level, provider |-> Self, value |-> s_5],
                [name |-> s_acme \o <<"/">> \o s_clan, provider |-> Self, value |-> s_red]>>
    /\ SentOnlyWithCapability

(* C8, amended: in the scenario exactly two tags are attached, acme/clan = *)
(* red first and acme/level = 5 second (the order of the names in the      *)
(* map), and a tag is sent only to connections with the capability.        *)
C8_ClanThenLevel ==
    /\ C8_Scenario
         => call.tags =
              <<[name |-> s_acme \o <<"/">> \o s_clan, provider |-> Self, value |-> s_red],
                [name |-> s_acme \o <<"/">> \o s_level, provider |-> Self, value |-> s_5]>>
    /\ SentOnlyWithCapability

\* The scenario happened.
C8_Witness == C8_Scenario /\ Len(call.tags) = 2

\* Some <specialmsg> tag of the configuration has no command.
HasBadTag(conf) ==
    \E i \in 1..Len(conf.specialmsg) : conf.specialmsg[i].command = <<>>

(* C9: a rehash whose configuration holds a <specialmsg> tag without a     *)
(* command leaves specialmsgs and vendor exactly as they were, also when   *)
(* valid tags precede the bad one.                                         *)
C9_BadConfigRejected ==
    [][(call'.op = "ReadConfig" /\ HasBadTag(call'.conf))
          => (specialmsgs' = specialmsgs /\ vendor' = vendor)]_vars

\* A configuration with a valid 321 tag before a bad tag and another vendor
\* was read while 354 was the only special message.
C9_Witness ==
    /\ call.op = "ReadConfig"
    /\ Len(call.conf.specialmsg) = 2
    /\ call.conf.specialmsg[1].command = s_321
    /\ call.conf.specialmsg[2].command = <<>>
    /\ call.conf.vendor = s_acme
    /\ vendor = ServerName
    /\ Len(specialmsgs) = 1
    /\ specialmsgs[1][1] = s_354

(* C10: when OnPopulateTags resolves a user who has a map, the tags it     *)
(* attaches are one per entry of that user's map, in the map's order, each *)
(* named vendor/name with the entry's value and this provider, and nothing *)
(* else.                                                                   *)
C10_TagsOfResolvedUser ==
    (/\ call.op = "OnPopulateTags"
     /\ call.user # NULL
     /\ HasStore(ext[call.user]))
        => /\ Len(call.tags) = Len(ListOf(ext[call.user]))
           /\ \A i \in 1..Len(call.tags) :
                 call.tags[i] =
                    [name |-> vendor \o <<"/">> \o ListOf(ext[call.user])[i][1],
                     provider |-> Self,
                     value |-> ListOf(ext[call.user])[i][2]]

\* A server-sourced message resolved through its parameters to Bob, who
\* holds two tags, while Alice holds other tags; two tags were attached.
C10_Witness ==
    /\ call.op = "OnPopulateTags"
    /\ ServerSourced(call.msg)
    /\ call.user = s_Bob
    /\ HasStore(ext[s_Bob])
    /\ Len(ListOf(ext[s_Bob])) = 2
    /\ HasStore(ext[s_Alice])
    /\ ext[s_Alice] # ext[s_Bob]
    /\ Len(call.tags) = 2

\* The parameter position a server-sourced message of a special command is
\* resolved through: the nick field plus one for 354, else the configured
\* index.
EffectivePosition(msg) ==
    IF IrcEquals(msg.command, s_354) THEN whox_index + 1
    ELSE specialmsgs[MapFind(specialmsgs, msg.command)][2]

\* Nothing names a subject for msg: its command is no special message, it
\* is a 354 while no nick field is recorded, it has too few parameters for
\* its position, or the parameter at that position is nobody's nick.
NoSubject(msg) ==
    \/ MapFind(specialmsgs, msg.command) = 0
    \/ IrcEquals(msg.command, s_354) /\ whox_index = NoNickField
    \/ Len(msg.params) <= EffectivePosition(msg)
    \/ \A u \in Users : ~IrcEquals(u, msg.params[EffectivePosition(msg) + 1])

\* The parameter at the position of msg names a user who has no map.
SubjectWithoutStore(msg) ==
    /\ ~NoSubject(msg)
    /\ \E u \in Users :
          /\ IrcEquals(u, msg.params[EffectivePosition(msg) + 1])
          /\ ~HasStore(ext[u])

(* C11: OnPopulateTags of a server-sourced message that names no subject   *)
(* (no special message, a 354 without a nick field, too few parameters, an *)
(* unknown nick) or whose subject has no map attaches no tag and leaves    *)
(* ext, specialmsgs, vendor and whox_index as they were.                   *)
C11_UnresolvedIsNoOp ==
    [][(/\ call'.op = "OnPopulateTags"
        /\ ServerSourced(call'.msg)
        /\ NoSubject(call'.msg) \/ SubjectWithoutStore(call'.msg))
          => /\ call'.tags = <<>>
             /\ UNCHANGED <<ext, specialmsgs, vendor, whox_index>>]_vars

\* A server-sourced 321 with the single parameter Alice was populated while
\* 321 is a special message with position 1 and Alice holds tags: too few
\* parameters, no tag attached.
C11_Witness ==
    /\ call.op = "OnPopulateTags"
    /\ ServerSourced(call.msg)
    /\ call.msg.command = s_321
    /\ MapFind(specialmsgs, s_321) # 0
    /\ specialmsgs[MapFind(specialmsgs, s_321)][2] = 1
    /\ call.msg.params = <<s_Alice>>
    /\ HasStore(ext[s_Alice])
    /\ call.user = NULL
    /\ call.tags = <<>>

\* The value an OnWhoLine for request leaves in whox_index: the index of
\* the nick field when the request has one, no nick field otherwise.
Observed(request) ==
    IF request.found THEN request.index ELSE NoNickField

(* C12: every OnWhoLine, of whichever connection, overwrites the one       *)
(* whox_index with the nick field of its request (none when the request    *)
(* has no nick field) and nothing else changes it, so whox_index is always *)
(* that of the most recent OnWhoLine; a server-sourced 354 populated right *)
(* after an OnWhoLine is resolved with that value whoever made the request *)
(* (to NULL when 354 is no special message).                               *)
C12_LastObserveWins ==
    /\ [][call'.op = "OnWhoLine"
             => whox_index' = Observed(call'.request)]_vars
    /\ [][call'.op # "OnWhoLine" => whox_index' = whox_index]_vars
    /\ [][(call.op = "OnWhoLine" /\ Whox354(call'))
             => LET k == Observed(call.request)
                    params == call'.msg.params
                IN  IF \/ MapFind(specialmsgs, s_354) = 0
                       \/ k = NoNickField
                       \/ Len(params) < k + 2
                    THEN call'.user = NULL
                    ELSE IsUserOfNick(call'.user, params[k + 2])]_vars

\* Bob's connection made a WHO request with the nick field 0 while 354 is a
\* special message; whox_index is 0 for the 354 lines of every connection.
C12_Witness ==
    /\ call.op = "OnWhoLine"
    /\ call.source = s_Bob
    /\ call.source # Recipient
    /\ call.request.found
    /\ whox_index = call.request.index
    /\ MapFind(specialmsgs, s_354) # 0

\* The index the last <specialmsg> tag of conftags for command configures,
\* as it is stored: 0 in place of an index outside 0..20.
ConfiguredIndex(conftags, command) ==
    LET last == CHOOSE i \in 1..Len(conftags) :
                   /\ IrcEquals(conftags[i].command, command)
                   /\ \A j \in (i + 1)..Len(conftags) :
                         ~IrcEquals(conftags[j].command, command)
    IN  IF conftags[last].index \in 0..20 THEN conftags[last].index ELSE 0

\* table holds the special messages of conftags and no others: one entry
\* for every command that has a tag, with the index that tag configures,
\* and no entry for any other command.
TableIsOf(table, conftags) ==
    /\ \A j \in 1..Len(conftags) :
          \E i \in 1..Len(table) : IrcEquals(table[i][1], conftags[j].command)
    /\ \A i \in 1..Len(table) :
          /\ \E j \in 1..Len(conftags) : IrcEquals(conftags[j].command, table[i][1])
          /\ table[i][2] = ConfiguredIndex(conftags, table[i][1])
          /\ \A k \in 1..Len(table) : IrcEquals(table[k][1], table[i][1]) => k = i

(* C13: specialmsgs changes in ReadConfig only and as a whole: a rehash    *)
(* that is rejected leaves it as it was, a rehash that succeeds leaves     *)
(* exactly the special messages of the new configuration (none of the old  *)
(* one), so every OnPopulateTags sees the table of one configuration; and  *)
(* every stored position is within 0..20.                                  *)
C13_TableReplacedWhole ==
    /\ [](\A i \in 1..Len(specialmsgs) : specialmsgs[i][2] \in 0..20)
    /\ [][call'.op = "ReadConfig"
             => IF HasBadTag(call'.conf)
                THEN specialmsgs' = specialmsgs
                ELSE TableIsOf(specialmsgs', call'.conf.specialmsg)]_vars
    /\ [][call'.op # "ReadConfig" => specialmsgs' = specialmsgs]_vars

\* A configuration whose only <specialmsg> tag is 321 with index 1 was read
\* and 321 is the only special message.
C13_Witness ==
    /\ call.op = "ReadConfig"
    /\ ~HasBadTag(call.conf)
    /\ Len(call.conf.specialmsg) = 1
    /\ call.conf.specialmsg[1] = [command |-> s_321, index |-> 1]
    /\ specialmsgs = <<<<s_321, 1>>>>

\* The tokens of a payload, in order: the maximal runs of characters other
\* than the space, read from the i-th character on with the token word
\* begun and the tokens words complete.
RECURSIVE WordsFrom(_, _, _, _)
WordsFrom(value, i, word, words) ==
    LET done == IF word = <<>> THEN words ELSE Append(words, word)
    IN  IF i > Len(value) THEN done
        ELSE IF value[i] = SP THEN WordsFrom(value, i + 1, <<>>, done)
        ELSE WordsFrom(value, i + 1, Append(word, value[i]), words)

Words(value) == WordsFrom(value, 1, <<>>, <<>>)

\* A payload that decodes: name and value tokens in pairs, at least one
\* pair, nothing after the last value.
WellFormed(value) ==
    /\ TokenCount(value) >= 2
    /\ TokenCount(value) % 2 = 0
    /\ value[Len(value)] # SP

\* The (name, value) pairs of the tokens words from the n-th pair on.
RECURSIVE PairsFrom(_, _)
PairsFrom(words, n) ==
    IF 2 * n > Len(words) THEN <<>>
    ELSE <<(<<words[2 * n - 1], words[2 * n]>>)>> \o PairsFrom(words, n + 1)

\* The (name, value) pairs of a well-formed payload, in order.
PairsOf(value) == PairsFrom(Words(value), 1)

\* The entries of a store, as a set.
EntriesOf(e) == {ListOf(e)[i] : i \in 1..Len(ListOf(e))}

\* The pairs of a payload that are the first with their name, compared
\* without case.
FirstPairsOf(value) ==
    LET pairs == PairsOf(value)
    IN  {pairs[n] : n \in {m \in 1..Len(pairs) :
            \A k \in 1..(m - 1) : ~IrcEquals(pairs[k][1], pairs[m][1])}}

\* A decode of a well-formed payload happens.
DecodeStep == call'.op = "FromNetwork" /\ WellFormed(call'.value)

\* A well-formed payload has just been decoded.
Decoded == call.op = "FromNetwork" /\ WellFormed(call.value)

\* The decode of a well-formed payload leaves the other users' extensions
\* as they were.
OthersKept ==
    [][DecodeStep => \A u \in Users \ {call'.user} : ext'[u] = ext[u]]_vars

(* C14, as first stated: after FromNetwork of a well-formed payload the    *)
(* user's map holds exactly the pairs of the payload, whatever it held     *)
(* before, and no other user's extension changed.                          *)
C14_HoldsAllPairs ==
    /\ [](Decoded
            => /\ HasStore(ext[call.user])
               /\ LET pairs == PairsOf(call.value)
                  IN  EntriesOf(ext[call.user]) = {pairs[n] : n \in 1..Len(pairs)})
    /\ OthersKept

(* C14, amended: after FromNetwork of a well-formed payload the user's map *)
(* holds exactly the pairs of the payload, of pairs whose names are equal  *)
(* without case only the first, one entry each, whatever it held before;   *)
(* and no other user's extension changed.                                  *)
C14_HoldsFirstPairs ==
    /\ [](Decoded
            => /\ HasStore(ext[call.user])
               /\ EntriesOf(ext[call.user]) = FirstPairsOf(call.value)
               /\ Len(ListOf(ext[call.user])) = Cardinality(FirstPairsOf(call.value)))
    /\ OthersKept

\* The payload "level 5" was decoded for Bob: level = 5 is all he holds,
\* while Alice holds other tags.
C14_Witness ==
    /\ call.op = "FromNetwork"
    /\ call.user = s_Bob
    /\ call.value = JoinPairs(<<(<<s_level, s_5>>)>>)
    /\ ext[s_Bob] = StoreOf(<<(<<s_level, s_5>>)>>)
    /\ HasStore(ext[s_Alice])
    /\ ext[s_Alice] # ext[s_Bob]

\* No two entries of the map of e have names that are equal without case.
UniqueNames(e) ==
    HasStore(e)
        => \A i, j \in 1..Len(ListOf(e)) :
              IrcEquals(ListOf(e)[i][1], ListOf(e)[j][1]) => i = j

\* Every name of pairs has one entry in list, and it is the first of the
\* pairs with that name, compared without case.
FirstOccurrencesKept(pairs, list) ==
    \A n \in 1..Len(pairs) :
       LET first == CHOOSE m \in 1..n :
                       /\ IrcEquals(pairs[m][1], pairs[n][1])
                       /\ \A k \in 1..(m - 1) : ~IrcEquals(pairs[k][1], pairs[n][1])
           same  == {i \in 1..Len(list) : IrcEquals(list[i][1], pairs[n][1])}
       IN  /\ Cardinality(same) = 1
           /\ \A i \in same : list[i] = pairs[first]

(* C15: no user's map ever holds two entries whose names are equal without *)
(* case; after FromNetwork of a well-formed payload every name of the      *)
(* payload has one entry in the user's map, and it has the spelling and    *)
(* the value of the first pair of the payload with that name.              *)
C15_UniqueNamesFirstKept ==
    /\ \A u \in Users : UniqueNames(ext[u])
    /\ Decoded => FirstOccurrencesKept(PairsOf(call.value), ListOf(ext[call.user]))

\* The payload "clan red Clan 5" was decoded for Bob, who holds the single
\* entry clan = red.
C15_Witness ==
    /\ call.op = "FromNetwork"
    /\ call.user = s_Bob
    /\ call.value = JoinPairs(<<(<<s_clan, s_red>>), (<<s_Clan, s_5>>)>>)
    /\ ext[s_Bob] = StoreOf(<<(<<s_clan, s_red>>)>>)

\* The names of a payload, in order.
NamesOf(value) ==
    LET pairs == PairsOf(value)
    IN  [n \in 1..Len(pairs) |-> pairs[n][1]]

\* names ascend in the order of the map, which compares without case.
Ascending(names) ==
    \A i \in 1..(Len(names) - 1) : InsensitiveLess(names[i], names[i + 1])

\* Two sequences of pairs are permutations of each other.
PermutationOf(p, q) ==
    /\ Len(p) = Len(q)
    /\ \A x \in {p[i] : i \in 1..Len(p)} \cup {q[i] : i \in 1..Len(q)} :
          Cardinality({i \in 1..Len(p) : p[i] = x})
             = Cardinality({i \in 1..Len(q) : q[i] = x})

\* No two pairs have names that are equal without case.
DistinctNames(p) ==
    \A i, j \in 1..Len(p) : IrcEquals(p[i][1], p[j][1]) => i = j

\* Two users in turn get well-formed payloads that are permutations of
\* each other.
PermutedDecodes ==
    /\ call.op = "FromNetwork"
    /\ call'.op = "FromNetwork"
    /\ call.user # call'.user
    /\ WellFormed(call.value)
    /\ WellFormed(call'.value)
    /\ PermutationOf(PairsOf(call.value), PairsOf(call'.value))

\* Every map is in ascending order of its names, ToNetwork emits the pairs
\* of a map in that order, and encoding the decoding of what ToNetwork
\* emitted gives the same string again.
C16_OrderAndIdempotence ==
    /\ [](\A u \in Users :
             HasStore(ext[u])
                => Ascending([i \in 1..Len(ListOf(ext[u])) |-> ListOf(ext[u])[i][1]]))
    /\ [](call.op = "ToNetwork"
             => /\ WellFormed(call.result)
                /\ PairsOf(call.result) = call.item
                /\ Ascending(NamesOf(call.result)))
    /\ [][RoundTripStep
             => /\ HasStore(ext'[call'.user])
                /\ ToNetwork(ListOf(ext'[call'.user])) = call.result]_vars

(* C16, as first stated: ToNetwork emits the pairs in the ascending order  *)
(* of their names compared without case, whatever the order they arrived   *)
(* in; encoding the decoding of an encoded map gives the same string; and  *)
(* two payloads that are permutations of the same pairs leave maps that    *)
(* encode to the same string.                                              *)
C16_PermutationsEncodeAlike ==
    /\ C16_OrderAndIdempotence
    /\ [][PermutedDecodes
             => ToNetwork(ListOf(ext'[call.user]))
                   = ToNetwork(ListOf(ext'[call'.user]))]_vars

(* C16, amended: ToNetwork emits the pairs in the ascending order of their *)
(* names compared without case, whatever the order they arrived in;        *)
(* encoding the decoding of an encoded map gives the same string; and two  *)
(* payloads that are permutations of the same pairs, no two of which have  *)
(* names equal without case, leave maps that encode to the same string.    *)
C16_CanonicalEncoding ==
    /\ C16_OrderAndIdempotence
    /\ [][(PermutedDecodes /\ DistinctNames(PairsOf(call.value)))
             => ToNetwork(ListOf(ext'[call.user]))
                   = ToNetwork(ListOf(ext'[call'.user]))]_vars

\* Bob got the payload "level 5 clan red" after Alice got its pairs in some
\* order: both hold the same map, which encodes to "clan red level 5".
C16_Witness ==
    /\ call.op = "FromNetwork"
    /\ call.user = s_Bob
    /\ call.value = JoinPairs(<<(<<s_level, s_5>>), (<<s_clan, s_red>>)>>)
    /\ HasStore(ext[s_Bob])
    /\ ext[s_Alice] = ext[s_Bob]
    /\ ToNetwork(ListOf(ext[s_Bob]))
          = JoinPairs(<<(<<s_clan, s_red>>), (<<s_level, s_5>>)>>)

(* C17: a server-sourced 354 gets no subject and no tag while 354 is no    *)
(* special message, also with a nick field recorded; while 354 is a        *)
(* special message and the nick field k is recorded, the 354 is resolved   *)
(* through params[k + 1] and gets that user's tags, whatever index the     *)
(* <specialmsg> tag of 354 configures.                                     *)
C17_TableEntryNeededIndexIgnored ==
    Whox354(call)
        => /\ MapFind(specialmsgs, s_354) = 0
                => (call.user = NULL /\ call.tags = <<>>)
           /\ (MapFind(specialmsgs, s_354) # 0 /\ whox_index # NoNickField)
                => LET position == whox_index + 1
                   IN  IF Len(call.msg.params) > position
                       THEN /\ IsUserOfNick(call.user, call.msg.params[position + 1])
                            /\ call.user # NULL
                                  => TagsMatch(call.tags, ext[call.user])
                       ELSE call.user = NULL /\ call.tags = <<>>

\* 354 is a special message whose configured index 0 points at Alice, the
\* nick field 0 is recorded, and a server-sourced 354 with the parameters
\* Alice, Bob got the tags of Bob, which are not those of Alice.
C17_Witness ==
    /\ Whox354(call)
    /\ MapFind(specialmsgs, s_354) # 0
    /\ specialmsgs[MapFind(specialmsgs, s_354)][2] = 0
    /\ whox_index = 0
    /\ call.msg.params = <<s_Alice, s_Bob>>
    /\ call.user = s_Bob
    /\ HasStore(ext[s_Alice])
    /\ HasStore(ext[s_Bob])
    /\ ext[s_Alice] # ext[s_Bob]
    /\ TagsMatch(call.tags, ext[s_Bob])

\* No 354 tag is configured, the nick field 0 is recorded, and a
\* server-sourced 354 naming Bob, who holds tags, got none.
C17_WitnessNoEntry ==
    /\ Whox354(call)
    /\ MapFind(specialmsgs, s_354) = 0
    /\ whox_index = 0
    /\ call.msg.params = <<s_Alice, s_Bob>>
    /\ HasStore(ext[s_Bob])
    /\ call.tags = <<>>

====
